---- MODULE Spec2Model ----
(***************************************************************************)
(* State-machine model of the in-memory REST API (users, products,        *)
(* orders): the entity store (data/store), the validation middleware and  *)
(* the route handlers.  JavaScript objects are modelled as functions from *)
(* field names to values, so that object spread is function override and  *)
(* "field absent" is "key not in DOMAIN".                                  *)
(***************************************************************************)
EXTENDS Integers, Sequences, FiniteSets, TLC

VARIABLES users, products, orders, pc, req, resp, nextId, now, tick, hits, clients

vars == <<users, products, orders, pc, req, resp, nextId, now, tick, hits, clients>>

(***************************************************************************)
(* Bounds of the exploration.                                              *)
(***************************************************************************)
MaxUsers == 3
MaxProducts == 4
MaxOrders == 2
MaxGen == 2
\* requests a client sends beyond the limiter's max within one window
\* the clock values of the direct store calls
MaxClock == 4

MaxOver == 2

(***************************************************************************)
(* JavaScript values and helpers.                                          *)
(***************************************************************************)
Undefined == [undefined |-> TRUE]

EmptyObj == [k \in {} |-> 0]

\* { ...a, ...b }: keys of b override keys of a
Spread(a, b) == b @@ a

Min(a, b) == IF a < b THEN a ELSE b

Max(a, b) == IF a > b THEN a ELSE b

\* Array.prototype.slice(start, end) on a 0-based array, as a 1-based sequence
Slice(arr, start, end) ==
  LET s == Min(start, Len(arr))
      e == Min(end, Len(arr))
  IN  [i \in 1..Max(0, e - s) |-> arr[s + i]]

\* Array.prototype.splice(index, 1) with a 0-based index i - 1
Splice(arr, i) == [j \in 1..(Len(arr) - 1) |-> IF j < i THEN arr[j] ELSE arr[j + 1]]

\* Math.ceil(n / d) for n >= 0, d >= 1
Ceil(n, d) == IF n % d = 0 THEN n \div d ELSE (n \div d) + 1

\* String.prototype.toLowerCase on strings held as sequences of characters
LowerChar(c) ==
  CASE c = "J" -> "j"
    [] c = "A" -> "a"
    [] c = "T" -> "t"
    [] OTHER -> c

ToLowerCase(s) == [i \in DOMAIN s |-> LowerChar(s[i])]

\* String.prototype.includes
Includes(s, q) == \E i \in 0..(Len(s) - Len(q)) : SubSeq(s, i + 1, i + Len(q)) = q

\* the trim() sanitizer
RECURSIVE Trim(_)
Trim(s) ==
  IF s = <<>> THEN s
  ELSE IF Head(s) = " " THEN Trim(Tail(s))
  ELSE IF s[Len(s)] = " " THEN Trim(SubSeq(s, 1, Len(s) - 1))
  ELSE s

\* the normalizeEmail() sanitizer: lower-cases the address
normalizeEmail(e) ==
  CASE e = "JOHN.DOE@example.com" -> "john.doe@example.com"
    [] e = "New@example.com" -> "new@example.com"
    [] OTHER -> e

\* the isEmail() validator
isEmail(e) == e # "not-an-email"

\* the isUUID() validator
isUUID(s) == s # "not-a-uuid"

(***************************************************************************)
(* data/store: the seeded collections and the CRUD primitives.  The three *)
(* xxxOperations objects are the same code over three arrays.             *)
(***************************************************************************)
SeedUsers ==
  << [id |-> "u1", name |-> <<"J", "o">>, email |-> "john.doe@example.com",
      age |-> 30, createdAt |-> 0, updatedAt |-> 0],
     [id |-> "u2", name |-> <<"J", "a">>, email |-> "jane.smith@example.com",
      age |-> 25, createdAt |-> 1, updatedAt |-> 1] >>

SeedProducts ==
  << [id |-> "p1", name |-> <<"i", "P">>, description |-> "d1", price |-> 99999,
      category |-> "electronics", inStock |-> TRUE, createdAt |-> 0, updatedAt |-> 0],
     [id |-> "p2", name |-> <<"M", "a">>, description |-> "d2", price |-> 119999,
      category |-> "electronics", inStock |-> TRUE, createdAt |-> 0, updatedAt |-> 0],
     [id |-> "p3", name |-> <<"T", "s">>, description |-> "d3", price |-> 2999,
      category |-> "clothing", inStock |-> TRUE, createdAt |-> 0, updatedAt |-> 0] >>

SeedOrders ==
  << [id |-> "o1", userId |-> "u1",
      products |-> << [productId |-> "p1", quantity |-> 1, price |-> 99999] >>,
      totalAmount |-> 99999, status |-> "delivered",
      createdAt |-> 2, updatedAt |-> 2] >>

\* uuidv4(): the n-th generated id, distinct from every seeded or earlier id
generateId(n) == "g" \o ToString(n)

\* arr.findIndex(x => x.id === id), 1-based; 0 stands for -1
FindIndex(arr, id) ==
  IF \E i \in 1..Len(arr) : arr[i].id = id
  THEN CHOOSE i \in 1..Len(arr) :
         arr[i].id = id /\ \A j \in 1..(i - 1) : arr[j].id # id
  ELSE 0

\* arr.find(x => x.id === id)
FindById(arr, id) == IF FindIndex(arr, id) = 0 THEN Undefined ELSE arr[FindIndex(arr, id)]

\* { id: generateId(), ...data, createdAt: now(), updatedAt: now() }
NewRecord(data, id, t1, t2) ==
  Spread(Spread([id |-> id], data), [createdAt |-> t1, updatedAt |-> t2])

Merged_Replaces(old, data, t) == Spread(Spread([id |-> old.id], data), [updatedAt |-> t])

\* arr[index] = { ...arr[index], ...data, updatedAt: now() }
Merged(old, data, t) == Spread(Spread(old, data), [updatedAt |-> t])

\* if (index === -1) return null
Null == [null |-> TRUE]

\* what update(id, data) returns: null, or the record it has just stored
UpdateReturn(arr, id, data, t) ==
  IF FindIndex(arr, id) = 0 THEN Null ELSE Merged(arr[FindIndex(arr, id)], data, t)

userOperations_getAll(us) == us

userOperations_getById_Assigns(us, id) == IF us = <<>> THEN Undefined ELSE us[1]

userOperations_getById(us, id) == FindById(us, id)

userOperations_create(us, userData, id, t1, t2) ==
  Append(us, NewRecord(userData, id, t1, t2))

userOperations_update(us, id, userData, t) ==
  IF FindIndex(us, id) = 0 THEN us
  ELSE [us EXCEPT ![FindIndex(us, id)] = Merged(@, userData, t)]

userOperations_delete(us, id) ==
  IF FindIndex(us, id) = 0 THEN us ELSE Splice(us, FindIndex(us, id))

productOperations_getAll(ps) == ps

productOperations_getById_Assigns(ps, id) == IF ps = <<>> THEN Undefined ELSE ps[1]

productOperations_getById(ps, id) == FindById(ps, id)

productOperations_create(ps, productData, id, t1, t2) ==
  Append(ps, NewRecord(productData, id, t1, t2))

productOperations_update(ps, id, productData, t) ==
  IF FindIndex(ps, id) = 0 THEN ps
  ELSE [ps EXCEPT ![FindIndex(ps, id)] = Merged(@, productData, t)]

productOperations_delete(ps, id) ==
  IF FindIndex(ps, id) = 0 THEN ps ELSE Splice(ps, FindIndex(ps, id))

orderOperations_getAll(os) == os

orderOperations_getById(os, id) == FindById(os, id)

orderOperations_create(os, orderData, id, t1, t2) ==
  Append(os, NewRecord(orderData, id, t1, t2))

orderOperations_update_Recomputes(os, id, orderData, t) ==
  IF FindIndex(os, id) = 0 THEN os
  ELSE [os EXCEPT ![FindIndex(os, id)] =
          Merged(@, IF "products" \in DOMAIN orderData /\ orderData.products # <<>>
                    THEN Spread(orderData,
                                [totalAmount |-> orderData.products[1].price
                                                   * orderData.products[1].quantity])
                    ELSE orderData, t)]

orderOperations_update(os, id, orderData, t) ==
  IF FindIndex(os, id) = 0 THEN os
  ELSE [os EXCEPT ![FindIndex(os, id)] = Merged(@, orderData, t)]

orderOperations_delete(os, id) ==
  IF FindIndex(os, id) = 0 THEN os ELSE Splice(os, FindIndex(os, id))

(***************************************************************************)
(* The HTTP exchange.  A request arrives (pc = "idle") and passes the     *)
(* limiter, the body parser and the route's validation chain, which also  *)
(* sanitizes it ("validated"); it is handled by the route handler in one  *)
(* step ("done") and the response is sent ("idle").  A validation failure *)
(* or a refusal by the limiter goes straight to "done"; an error handed   *)
(* to next(err) waits for errorHandler ("error").  tick is the number of  *)
(* clock units that pass between the first and the second clock reading   *)
(* of a create; hits counts each address's requests in the limiter's      *)
(* running window.  clients holds, for each client, the request of its    *)
(* that has passed its chain and waits for the event loop to call its     *)
(* handler, and the answer it got.                                         *)
(***************************************************************************)
NoReq == [op |-> "none"]

NoResp == [status |-> 0]

Json(status, fields) == Spread([status |-> status], fields)

\* { error: true, message, statusCode, timestamp: new Date().toISOString() }
ErrorJson(status, message) ==
  Json(status, [error |-> TRUE, message |-> message, statusCode |-> status,
                timestamp |-> now])

ErrorBody(status, text) == ErrorJson(status, [text |-> text])

\* the clients of the exploration, as the limiter tells them apart (req.ip)
IPs == {"ip1", "ip2"}

\* the ids a client can know: ids handed out so far, plus one never stored
StoredIds(arr) == {arr[i].id : i \in 1..Len(arr)}

\* one optional field of a JSON body or of a query string
Opt(k, V) == {EmptyObj} \cup {k :> v : v \in V}

Init ==
  /\ users = SeedUsers
  /\ products = SeedProducts
  /\ orders = SeedOrders
  /\ pc = "idle"
  /\ req = NoReq
  /\ resp = NoResp
  /\ nextId = 1
  /\ now = 3
  /\ tick = 0
  /\ hits = [ip \in IPs |-> 0]
  /\ clients = [ip \in IPs |-> [at |-> "none"]]

\* the response has been written; the exchange is over
Respond ==
  /\ pc = "done"
  /\ pc' = "idle"
  /\ req' = NoReq
  /\ resp' = NoResp
  /\ tick' = 0
  /\ UNCHANGED <<users, products, orders, nextId, now, hits, clients>>

\* res.status(s).json(body) in a handler that leaves the store alone
Reply(r) ==
  /\ resp' = r
  /\ pc' = "done"
  /\ UNCHANGED <<req, tick, hits, clients>>

(***************************************************************************)
(* middleware/validation and the validation chains of routes/users.       *)
(***************************************************************************)
Has(obj, k) == k \in DOMAIN obj

FieldError(field, msg, obj) ==
  [field |-> field, message |-> msg, value |-> IF Has(obj, field) THEN obj[field] ELSE Undefined]

IdErrors_Lenient(r, msg) == <<>>

\* param("id").isUUID()
IdErrors(r, msg) ==
  IF isUUID(r.id) THEN <<>> ELSE << [field |-> "id", message |-> msg, value |-> r.id] >>

\* query("page").optional().isInt({min: 1}); query("limit").optional().isInt({min: 1, max: 100})
PageErrors(q) ==
  (IF Has(q, "page") /\ q.page < 1
   THEN << FieldError("page", "Page must be a positive integer", q) >> ELSE <<>>)
  \o
  (IF Has(q, "limit") /\ (q.limit < 1 \/ q.limit > 100)
   THEN << FieldError("limit", "Limit must be between 1 and 100", q) >> ELSE <<>>)

\* the body chains of POST and PUT (optional = FALSE) and of PATCH (optional = TRUE)
UserBodyErrors(b, optional) ==
  (IF Has(b, "name")
   THEN IF Len(Trim(b.name)) < 2 \/ Len(Trim(b.name)) > 50
        THEN << FieldError("name", "Name must be between 2 and 50 characters", b) >>
        ELSE <<>>
   ELSE IF optional THEN <<>>
        ELSE << FieldError("name", "Name must be between 2 and 50 characters", b) >>)
  \o
  (IF Has(b, "email")
   THEN IF isEmail(b.email) THEN <<>>
        ELSE << FieldError("email", "Must be a valid email address", b) >>
   ELSE IF optional THEN <<>>
        ELSE << FieldError("email", "Must be a valid email address", b) >>)
  \o
  (IF Has(b, "age")
   THEN IF b.age < 18 \/ b.age > 120
        THEN << FieldError("age", "Age must be between 18 and 120", b) >>
        ELSE <<>>
   ELSE IF optional THEN <<>>
        ELSE << FieldError("age", "Age must be between 18 and 120", b) >>)

\* body("name").trim(), body("email").normalizeEmail()
SanitizeUserBody(b) ==
  [k \in DOMAIN b |->
     IF k = "name" THEN Trim(b[k])
     ELSE IF k = "email" THEN normalizeEmail(b[k])
     ELSE b[k]]

\* query("name").trim()
SanitizeQuery(q) == [k \in DOMAIN q |-> IF k = "name" THEN Trim(q[k]) ELSE q[k]]

UserListErrors(q) ==
  PageErrors(q)
  \o
  (IF Has(q, "name") /\ Len(Trim(q.name)) < 1
   THEN << FieldError("name", "Name filter must be a non-empty string", q) >> ELSE <<>>)
  \o
  (IF Has(q, "email") /\ ~isEmail(q.email)
   THEN << FieldError("email", "Email filter must be a valid email", q) >> ELSE <<>>)

\* validate: 400 with the list of field errors, or next()
validate(errors) ==
  Spread(ErrorBody(400, "Validation failed"), [errors |-> errors])

(***************************************************************************)
(* routes/users                                                            *)
(***************************************************************************)
\* parseInt(req.query.k) || d
ParseIntOr(q, k, d) == IF Has(q, k) /\ q[k] # 0 THEN q[k] ELSE d

Paginate_FromNextPage(list, q) ==
  LET page == IF Has(q, "page") /\ q.page # 0 THEN q.page ELSE 1
      limit == IF Has(q, "limit") /\ q.limit # 0 THEN q.limit ELSE 10
  IN  [status |-> 200, success |-> TRUE,
       data |-> Slice(list, page * limit, (page + 1) * limit),
       pagination |-> [page |-> page, limit |-> limit, total |-> Len(list),
                       totalPages |-> Ceil(Len(list), limit)]]

\* the pagination block shared by the three list handlers
Paginate(list, q) ==
  LET page == ParseIntOr(q, "page", 1)
      limit == ParseIntOr(q, "limit", 10)
      startIndex == (page - 1) * limit
      endIndex == page * limit
  IN  Json(200, [success |-> TRUE,
                 data |-> Slice(list, startIndex, endIndex),
                 pagination |-> [page |-> page, limit |-> limit, total |-> Len(list),
                                 totalPages |-> Ceil(Len(list), limit)]])

\* users.filter(...) of GET /users
FilterUsers(us, q) ==
  LET byName == IF Has(q, "name") /\ q.name # <<>>
                THEN SelectSeq(us, LAMBDA u : Includes(ToLowerCase(u.name), ToLowerCase(q.name)))
                ELSE us
  IN  IF Has(q, "email") /\ q.email # ""
      THEN SelectSeq(byName, LAMBDA u : u.email = q.email)
      ELSE byName

EmailTaken_FirstOnly(us, email) == us # <<>> /\ us[1].email = email

\* users.find(user => user.email === email)
EmailTaken(us, email) == \E i \in 1..Len(us) : us[i].email = email

\* users.find(user => user.email === email && user.id !== id)
EmailTakenByOther(us, email, id) ==
  \E i \in 1..Len(us) : us[i].email = email /\ us[i].id # id

\* GET /users
GetUsers ==
  /\ pc = "validated" /\ req.op = "GET /users"
  /\ Reply(Paginate(FilterUsers(userOperations_getAll(users), req.query), req.query))
  /\ UNCHANGED <<users, products, orders, nextId, now>>

GetUserById_Touches ==
  /\ pc = "validated" /\ req.op = "GET /users/:id"
  /\ LET user == userOperations_getById(users, req.id)
     IN  IF user = Undefined
         THEN Reply(ErrorBody(404, "User not found")) /\ UNCHANGED users
         ELSE /\ Reply(Json(200, [success |-> TRUE, data |-> user]))
              /\ users' = userOperations_update(users, req.id, EmptyObj, now + 1)
  /\ UNCHANGED <<products, orders, nextId, now>>

\* GET /users/:id
GetUserById ==
  /\ pc = "validated" /\ req.op = "GET /users/:id"
  /\ LET user == userOperations_getById(users, req.id)
     IN  IF user = Undefined
         THEN Reply(ErrorBody(404, "User not found"))
         ELSE Reply(Json(200, [success |-> TRUE, data |-> user]))
  /\ UNCHANGED <<users, products, orders, nextId, now>>

\* POST /users
PostUser ==
  /\ pc = "validated" /\ req.op = "POST /users"
  /\ IF EmailTaken(userOperations_getAll(users), req.body.email)
     THEN /\ Reply(ErrorBody(409, "User with this email already exists"))
          /\ UNCHANGED <<users, products, orders, nextId, now>>
     ELSE /\ users' = userOperations_create(users, req.body, generateId(nextId), now, now + tick)
          /\ nextId' = nextId + 1
          /\ now' = now + tick
          /\ Reply(Json(201, [success |-> TRUE,
                              message |-> [text |-> "User created successfully"],
                              data |-> users'[Len(users')]]))
          /\ UNCHANGED <<products, orders>>

\* PUT /users/:id
PutUser ==
  /\ pc = "validated" /\ req.op = "PUT /users/:id"
  /\ LET existingUser == userOperations_getById(users, req.id)
     IN  IF existingUser = Undefined
         THEN /\ Reply(ErrorBody(404, "User not found"))
              /\ UNCHANGED users
         ELSE IF /\ req.body.email # existingUser.email
                 /\ EmailTakenByOther(userOperations_getAll(users), req.body.email, req.id)
         THEN /\ Reply(ErrorBody(409, "User with this email already exists"))
              /\ UNCHANGED users
         ELSE /\ users' = userOperations_update(users, req.id, req.body, now)
              /\ Reply(Json(200, [success |-> TRUE,
                                  message |-> [text |-> "User updated successfully"],
                                  data |-> users'[FindIndex(users, req.id)]]))
  /\ UNCHANGED <<products, orders, nextId, now>>

\* PATCH /users/:id
PatchUser ==
  /\ pc = "validated" /\ req.op = "PATCH /users/:id"
  /\ LET existingUser == userOperations_getById(users, req.id)
     IN  IF existingUser = Undefined
         THEN /\ Reply(ErrorBody(404, "User not found"))
              /\ UNCHANGED users
         ELSE IF /\ Has(req.body, "email")
                 /\ req.body.email # existingUser.email
                 /\ EmailTakenByOther(userOperations_getAll(users), req.body.email, req.id)
         THEN /\ Reply(ErrorBody(409, "User with this email already exists"))
              /\ UNCHANGED users
         ELSE /\ users' = userOperations_update(users, req.id, req.body, now)
              /\ Reply(Json(200, [success |-> TRUE,
                                  message |-> [text |-> "User updated successfully"],
                                  data |-> users'[FindIndex(users, req.id)]]))
  /\ UNCHANGED <<products, orders, nextId, now>>

DeleteUser_Cascade ==
  /\ pc = "validated" /\ req.op = "DELETE /users/:id"
  /\ IF FindIndex(users, req.id) = 0
     THEN /\ Reply(ErrorBody(404, "User not found"))
          /\ UNCHANGED <<users, orders>>
     ELSE /\ users' = userOperations_delete(users, req.id)
          /\ orders' = SelectSeq(orders, LAMBDA o : o.userId # req.id)
          /\ Reply(Json(200, [success |-> TRUE,
                              message |-> [text |-> "User deleted successfully"]]))
  /\ UNCHANGED <<products, nextId, now>>

\* DELETE /users/:id
DeleteUser ==
  /\ pc = "validated" /\ req.op = "DELETE /users/:id"
  /\ IF FindIndex(users, req.id) = 0
     THEN /\ Reply(ErrorBody(404, "User not found"))
          /\ UNCHANGED users
     ELSE /\ users' = userOperations_delete(users, req.id)
          /\ Reply(Json(200, [success |-> TRUE,
                              message |-> [text |-> "User deleted successfully"]]))
  /\ UNCHANGED <<products, orders, nextId, now>>

UsersRoutes == GetUsers \/ GetUserById \/ PostUser \/ PutUser \/ PatchUser \/ DeleteUser

(***************************************************************************)
(* routes/products                                                         *)
(***************************************************************************)
Categories == {"electronics", "clothing", "books", "home"}

\* the body chains of POST and PUT (optional = FALSE) and of PATCH (optional = TRUE)
ProductBodyErrors(b, optional) ==
  (IF Has(b, "name")
   THEN IF Len(Trim(b.name)) < 1 \/ Len(Trim(b.name)) > 100
        THEN << FieldError("name", "Name must be between 1 and 100 characters", b) >>
        ELSE <<>>
   ELSE IF optional THEN <<>>
        ELSE << FieldError("name", "Name must be between 1 and 100 characters", b) >>)
  \o
  (IF Has(b, "price")
   THEN IF b.price < 0
        THEN << FieldError("price", "Price must be a non-negative number", b) >>
        ELSE <<>>
   ELSE IF optional THEN <<>>
        ELSE << FieldError("price", "Price must be a non-negative number", b) >>)
  \o
  (IF Has(b, "category")
   THEN IF b.category \notin Categories
        THEN << FieldError("category",
                           "Category must be one of: electronics, clothing, books, home", b) >>
        ELSE <<>>
   ELSE IF optional THEN <<>>
        ELSE << FieldError("category",
                           "Category must be one of: electronics, clothing, books, home", b) >>)
  \o
  (IF Has(b, "inStock") /\ b.inStock \notin BOOLEAN
   THEN << FieldError("inStock", "inStock must be a boolean value", b) >> ELSE <<>>)

\* body("name").trim()
SanitizeProductBody(b) == [k \in DOMAIN b |-> IF k = "name" THEN Trim(b[k]) ELSE b[k]]

ProductListErrors(q) ==
  PageErrors(q)
  \o
  (IF Has(q, "name") /\ Len(Trim(q.name)) < 1
   THEN << FieldError("name", "Name filter must be a non-empty string", q) >> ELSE <<>>)
  \o
  (IF Has(q, "category") /\ q.category \notin Categories
   THEN << FieldError("category", "Invalid category", q) >> ELSE <<>>)
  \o
  (IF Has(q, "minPrice") /\ q.minPrice < 0
   THEN << FieldError("minPrice", "Minimum price must be a non-negative number", q) >>
   ELSE <<>>)
  \o
  (IF Has(q, "maxPrice") /\ q.maxPrice < 0
   THEN << FieldError("maxPrice", "Maximum price must be a non-negative number", q) >>
   ELSE <<>>)
  \o
  (IF Has(q, "inStock") /\ q.inStock \notin {"true", "false", "1", "0"}
   THEN << FieldError("inStock", "inStock must be a boolean value", q) >> ELSE <<>>)

\* products.filter(...) of GET /products; a query value is a non-empty string,
\* so a present numeric bound is truthy whatever its value
FilterProducts(ps, q) ==
  LET byName == IF Has(q, "name") /\ q.name # <<>>
                THEN SelectSeq(ps, LAMBDA x : Includes(ToLowerCase(x.name), ToLowerCase(q.name)))
                ELSE ps
      byCategory == IF Has(q, "category")
                    THEN SelectSeq(byName, LAMBDA x : x.category = q.category)
                    ELSE byName
      byMin == IF Has(q, "minPrice")
               THEN SelectSeq(byCategory, LAMBDA x : x.price >= q.minPrice)
               ELSE byCategory
      byMax == IF Has(q, "maxPrice")
               THEN SelectSeq(byMin, LAMBDA x : x.price <= q.maxPrice)
               ELSE byMin
  IN  IF Has(q, "inStock")
      THEN SelectSeq(byMax, LAMBDA x : Has(x, "inStock") /\ x.inStock = (q.inStock = "true"))
      ELSE byMax

\* GET /products
GetProducts ==
  /\ pc = "validated" /\ req.op = "GET /products"
  /\ Reply(Paginate(FilterProducts(productOperations_getAll(products), req.query), req.query))
  /\ UNCHANGED <<users, products, orders, nextId, now>>

\* GET /products/:id
GetProductById ==
  /\ pc = "validated" /\ req.op = "GET /products/:id"
  /\ LET product == productOperations_getById(products, req.id)
     IN  IF product = Undefined
         THEN Reply(ErrorBody(404, "Product not found"))
         ELSE Reply(Json(200, [success |-> TRUE, data |-> product]))
  /\ UNCHANGED <<users, products, orders, nextId, now>>

\* POST /products
PostProduct ==
  /\ pc = "validated" /\ req.op = "POST /products"
  /\ products' = productOperations_create(products, req.body, generateId(nextId), now, now + tick)
  /\ nextId' = nextId + 1
  /\ now' = now + tick
  /\ Reply(Json(201, [success |-> TRUE,
                      message |-> [text |-> "Product created successfully"],
                      data |-> products'[Len(products')]]))
  /\ UNCHANGED <<users, orders>>

\* PUT /products/:id and PATCH /products/:id: the two handlers are the same code
UpdateProduct ==
  /\ LET existingProduct == productOperations_getById(products, req.id)
     IN  IF existingProduct = Undefined
         THEN /\ Reply(ErrorBody(404, "Product not found"))
              /\ UNCHANGED products
         ELSE /\ products' = productOperations_update(products, req.id, req.body, now)
              /\ Reply(Json(200, [success |-> TRUE,
                                  message |-> [text |-> "Product updated successfully"],
                                  data |-> products'[FindIndex(products, req.id)]]))
  /\ UNCHANGED <<users, orders, nextId, now>>

PutProduct == pc = "validated" /\ req.op = "PUT /products/:id" /\ UpdateProduct

PatchProduct == pc = "validated" /\ req.op = "PATCH /products/:id" /\ UpdateProduct

\* DELETE /products/:id
DeleteProduct ==
  /\ pc = "validated" /\ req.op = "DELETE /products/:id"
  /\ IF FindIndex(products, req.id) = 0
     THEN /\ Reply(ErrorBody(404, "Product not found"))
          /\ UNCHANGED products
     ELSE /\ products' = productOperations_delete(products, req.id)
          /\ Reply(Json(200, [success |-> TRUE,
                              message |-> [text |-> "Product deleted successfully"]]))
  /\ UNCHANGED <<users, orders, nextId, now>>

ProductsRoutes ==
  GetProducts \/ GetProductById \/ PostProduct \/ PutProduct \/ PatchProduct \/ DeleteProduct

(***************************************************************************)
(* routes/orders                                                           *)
(***************************************************************************)
Statuses == {"pending", "processing", "shipped", "delivered", "cancelled"}

\* body("userId").isUUID(), body("products").isArray({min: 1}),
\* body("products.*.productId").isUUID(), body("products.*.quantity").isInt({min: 1})
OrderBodyErrors(b) ==
  (IF Has(b, "userId") /\ isUUID(b.userId) THEN <<>>
   ELSE << FieldError("userId", "Invalid user ID format", b) >>)
  \o
  (IF Has(b, "products") /\ Len(b.products) >= 1 THEN <<>>
   ELSE << FieldError("products", "Products must be a non-empty array", b) >>)
  \o
  (IF Has(b, "products") /\ \E i \in 1..Len(b.products) : ~isUUID(b.products[i].productId)
   THEN << FieldError("products.*.productId", "Invalid product ID format", b) >> ELSE <<>>)
  \o
  (IF Has(b, "products") /\ \E i \in 1..Len(b.products) : b.products[i].quantity < 1
   THEN << FieldError("products.*.quantity", "Quantity must be a positive integer", b) >>
   ELSE <<>>)

\* the chain of PUT /orders/:id: the chain of POST plus products.*.price,
\* totalAmount and the optional status
OrderPutErrors(b) ==
  OrderBodyErrors(b)
  \o
  (IF Has(b, "products") /\ \E i \in 1..Len(b.products) :
        ~Has(b.products[i], "price") \/ b.products[i].price < 0
   THEN << FieldError("products.*.price", "Price must be a non-negative number", b) >>
   ELSE <<>>)
  \o
  (IF Has(b, "totalAmount") /\ b.totalAmount >= 0 THEN <<>>
   ELSE << FieldError("totalAmount", "Total amount must be a non-negative number", b) >>)
  \o
  (IF Has(b, "status") /\ b.status \notin Statuses
   THEN << FieldError("status", "Invalid status", b) >> ELSE <<>>)

\* the chain of PATCH /orders/:id
OrderPatchErrors(b) ==
  IF Has(b, "status") /\ b.status \notin Statuses
  THEN << FieldError("status", "Invalid status", b) >> ELSE <<>>

OrderListErrors(q) ==
  PageErrors(q)
  \o
  (IF Has(q, "userId") /\ ~isUUID(q.userId)
   THEN << FieldError("userId", "Invalid user ID format", q) >> ELSE <<>>)
  \o
  (IF Has(q, "status") /\ q.status \notin Statuses
   THEN << FieldError("status", "Invalid status", q) >> ELSE <<>>)
  \o
  (IF Has(q, "minAmount") /\ q.minAmount < 0
   THEN << FieldError("minAmount", "Minimum amount must be a non-negative number", q) >>
   ELSE <<>>)
  \o
  (IF Has(q, "maxAmount") /\ q.maxAmount < 0
   THEN << FieldError("maxAmount", "Maximum amount must be a non-negative number", q) >>
   ELSE <<>>)

\* orders.filter(...) of GET /orders
FilterOrders(os, q) ==
  LET byUser == IF Has(q, "userId")
                THEN SelectSeq(os, LAMBDA o : o.userId = q.userId)
                ELSE os
      byStatus == IF Has(q, "status")
                  THEN SelectSeq(byUser, LAMBDA o : o.status = q.status)
                  ELSE byUser
      byMin == IF Has(q, "minAmount")
               THEN SelectSeq(byStatus, LAMBDA o : o.totalAmount >= q.minAmount)
               ELSE byStatus
  IN  IF Has(q, "maxAmount")
      THEN SelectSeq(byMin, LAMBDA o : o.totalAmount <= q.maxAmount)
      ELSE byMin

OutOfStock_OnlyWhenAbsent(product) == ~Has(product, "inStock")

\* !product.inStock
OutOfStock(product) == ~(Has(product, "inStock") /\ product.inStock)

ItemTotal_NoQuantity(product, productItem) == product.price

\* const itemTotal = product.price * productItem.quantity
ItemTotal(product, productItem) == product.price * productItem.quantity

ValidatedLine_CallerWins(product, productItem) ==
  Spread([price |-> product.price], productItem)

\* validatedProducts.push({ productId, quantity, price: product.price })
ValidatedLine(product, productItem) ==
  [productId |-> productItem.productId, quantity |-> productItem.quantity,
   price |-> product.price]

\* the for loop of POST /orders over req.body.products: the first failing item
\* ends it with an error response, otherwise the validated lines and the total
RECURSIVE ComposeOrder(_, _, _, _)
ComposeOrder(items, ps, totalAmount, validatedProducts) ==
  IF items = <<>>
  THEN [ok |-> TRUE, totalAmount |-> totalAmount, products |-> validatedProducts]
  ELSE LET productItem == Head(items)
           product == productOperations_getById(ps, productItem.productId)
       IN  IF product = Undefined
           THEN [ok |-> FALSE,
                 response |-> ErrorJson(404, [text |-> "Product with ID not found",
                                              id |-> productItem.productId])]
           ELSE IF OutOfStock(product)
           THEN [ok |-> FALSE,
                 response |-> ErrorJson(400, [text |-> "Product is out of stock",
                                              name |-> product.name])]
           ELSE ComposeOrder(Tail(items), ps,
                             totalAmount + ItemTotal(product, productItem),
                             Append(validatedProducts, ValidatedLine(product, productItem)))

\* GET /orders
GetOrders ==
  /\ pc = "validated" /\ req.op = "GET /orders"
  /\ Reply(Paginate(FilterOrders(orderOperations_getAll(orders), req.query), req.query))
  /\ UNCHANGED <<users, products, orders, nextId, now>>

\* GET /orders/:id
GetOrderById ==
  /\ pc = "validated" /\ req.op = "GET /orders/:id"
  /\ LET order == orderOperations_getById(orders, req.id)
     IN  IF order = Undefined
         THEN Reply(ErrorBody(404, "Order not found"))
         ELSE Reply(Json(200, [success |-> TRUE, data |-> order]))
  /\ UNCHANGED <<users, products, orders, nextId, now>>

\* POST /orders
PostOrder ==
  /\ pc = "validated" /\ req.op = "POST /orders"
  /\ LET user == userOperations_getById(users, req.body.userId)
         composed == ComposeOrder(req.body.products, products, 0, <<>>)
     IN  IF user = Undefined
         THEN /\ Reply(ErrorBody(404, "User not found"))
              /\ UNCHANGED <<orders, nextId, now>>
         ELSE IF ~composed.ok
         THEN /\ Reply(composed.response)
              /\ UNCHANGED <<orders, nextId, now>>
         ELSE /\ orders' = orderOperations_create(orders,
                             [userId |-> req.body.userId, products |-> composed.products,
                              totalAmount |-> composed.totalAmount, status |-> "pending"],
                             generateId(nextId), now, now + tick)
              /\ nextId' = nextId + 1
              /\ now' = now + tick
              /\ Reply(Json(201, [success |-> TRUE,
                                  message |-> [text |-> "Order created successfully"],
                                  data |-> orders'[Len(orders')]]))
  /\ UNCHANGED <<users, products>>

FirstUnknownProduct_None(items, ps) == 0

\* the for loop of PUT /orders/:id: the position of the first item whose
\* product is not stored, 0 when every product is found
FirstUnknownProduct(items, ps) ==
  IF \E i \in 1..Len(items) : productOperations_getById(ps, items[i].productId) = Undefined
  THEN CHOOSE i \in 1..Len(items) :
         /\ productOperations_getById(ps, items[i].productId) = Undefined
         /\ \A j \in 1..(i - 1) :
              productOperations_getById(ps, items[j].productId) # Undefined
  ELSE 0

PutOrder_UpdatesFirst ==
  /\ pc = "validated" /\ req.op = "PUT /orders/:id"
  /\ LET existingOrder == orderOperations_getById(orders, req.id)
         user == userOperations_getById(users, req.body.userId)
         unknown == FirstUnknownProduct(req.body.products, products)
     IN  /\ orders' = orderOperations_update(orders, req.id, req.body, now)
         /\ IF existingOrder = Undefined
            THEN Reply(ErrorBody(404, "Order not found"))
            ELSE IF user = Undefined
            THEN Reply(ErrorBody(404, "User not found"))
            ELSE IF unknown # 0
            THEN Reply(ErrorJson(404, [text |-> "Product with ID not found",
                                       id |-> req.body.products[unknown].productId]))
            ELSE Reply(Json(200, [success |-> TRUE,
                                  message |-> [text |-> "Order updated successfully"],
                                  data |-> orders'[FindIndex(orders, req.id)]]))
  /\ UNCHANGED <<users, products, nextId, now>>

\* PUT /orders/:id
PutOrder ==
  /\ pc = "validated" /\ req.op = "PUT /orders/:id"
  /\ LET existingOrder == orderOperations_getById(orders, req.id)
         user == userOperations_getById(users, req.body.userId)
         unknown == FirstUnknownProduct(req.body.products, products)
     IN  IF existingOrder = Undefined
         THEN /\ Reply(ErrorBody(404, "Order not found"))
              /\ UNCHANGED orders
         ELSE IF user = Undefined
         THEN /\ Reply(ErrorBody(404, "User not found"))
              /\ UNCHANGED orders
         ELSE IF unknown # 0
         THEN /\ Reply(ErrorJson(404, [text |-> "Product with ID not found",
                                       id |-> req.body.products[unknown].productId]))
              /\ UNCHANGED orders
         ELSE /\ orders' = orderOperations_update(orders, req.id, req.body, now)
              /\ Reply(Json(200, [success |-> TRUE,
                                  message |-> [text |-> "Order updated successfully"],
                                  data |-> orders'[FindIndex(orders, req.id)]]))
  /\ UNCHANGED <<users, products, nextId, now>>

PatchOrder_ForwardOnly ==
  /\ pc = "validated" /\ req.op = "PATCH /orders/:id"
  /\ LET existingOrder == orderOperations_getById(orders, req.id)
     IN  IF existingOrder = Undefined
         THEN /\ Reply(ErrorBody(404, "Order not found"))
              /\ UNCHANGED orders
         ELSE IF /\ Has(req.body, "status")
                 /\ existingOrder.status \in {"delivered", "cancelled"}
                 /\ req.body.status # existingOrder.status
         THEN /\ Reply(ErrorBody(400, "Invalid status transition"))
              /\ UNCHANGED orders
         ELSE /\ orders' = orderOperations_update(orders, req.id, req.body, now)
              /\ Reply(Json(200, [success |-> TRUE,
                                  message |-> [text |-> "Order updated successfully"],
                                  data |-> orders'[FindIndex(orders, req.id)]]))
  /\ UNCHANGED <<users, products, nextId, now>>

\* PATCH /orders/:id
PatchOrder ==
  /\ pc = "validated" /\ req.op = "PATCH /orders/:id"
  /\ LET existingOrder == orderOperations_getById(orders, req.id)
     IN  IF existingOrder = Undefined
         THEN /\ Reply(ErrorBody(404, "Order not found"))
              /\ UNCHANGED orders
         ELSE /\ orders' = orderOperations_update(orders, req.id, req.body, now)
              /\ Reply(Json(200, [success |-> TRUE,
                                  message |-> [text |-> "Order updated successfully"],
                                  data |-> orders'[FindIndex(orders, req.id)]]))
  /\ UNCHANGED <<users, products, nextId, now>>

\* DELETE /orders/:id
DeleteOrder ==
  /\ pc = "validated" /\ req.op = "DELETE /orders/:id"
  /\ IF FindIndex(orders, req.id) = 0
     THEN /\ Reply(ErrorBody(404, "Order not found"))
          /\ UNCHANGED orders
     ELSE /\ orders' = orderOperations_delete(orders, req.id)
          /\ Reply(Json(200, [success |-> TRUE,
                              message |-> [text |-> "Order deleted successfully"]]))
  /\ UNCHANGED <<users, products, nextId, now>>

OrdersRoutes ==
  GetOrders \/ GetOrderById \/ PostOrder \/ PutOrder \/ PatchOrder \/ DeleteOrder

(***************************************************************************)
(* The requests of the exploration.  Bodies may carry fields the routes   *)
(* do not declare (an id): the validation chains leave them in req.body.  *)
(***************************************************************************)
RawNames == {<<"J", "o", " ">>}

RawEmails == {"JOHN.DOE@example.com", "jane.smith@example.com", "new@example.com"}

Ages == {30}

Pages == {1, 2, 3}

Limits == {1, 2}

\* a well-formed UUID that the store never holds
UnknownId == "u9"

UserParamIds == StoredIds(users) \cup {UnknownId}

FullUserBodies ==
  {n @@ e @@ a @@ i : n \in {"name" :> x : x \in RawNames}, e \in Opt("email", RawEmails),
                      a \in {"age" :> x : x \in Ages}, i \in Opt("id", {"u1"})}

PartialUserBodies ==
  {n @@ e @@ i : n \in Opt("name", RawNames), e \in Opt("email", RawEmails),
                 i \in Opt("id", {"u1"})}

UserQueries ==
  {pg @@ lm @@ nm : pg \in Opt("page", Pages), lm \in Opt("limit", Limits),
                    nm \in Opt("name", {<<"j", "O">>})}

UsersRequests ==
  {[op |-> "GET /users", query |-> q] : q \in UserQueries}
  \cup {[op |-> "GET /users/:id", id |-> i] : i \in UserParamIds \cup {"not-a-uuid"}}
  \cup {[op |-> "POST /users", body |-> b] :
          b \in IF Len(users) < MaxUsers /\ nextId <= MaxGen THEN FullUserBodies ELSE {}}
  \cup {[op |-> "PUT /users/:id", id |-> i, body |-> b] :
          i \in UserParamIds, b \in FullUserBodies}
  \cup {[op |-> "PATCH /users/:id", id |-> i, body |-> b] :
          i \in UserParamIds, b \in PartialUserBodies}
  \cup {[op |-> "DELETE /users/:id", id |-> i] : i \in UserParamIds}

\* GET /users?page=2&limit=1 style queries of the list endpoints
ListQueries(Filters) ==
  {pg @@ lm @@ f : pg \in Opt("page", {2}), lm \in Opt("limit", {1, 2}), f \in Filters}

\* one request per route of /users and /products, a few for /orders
CatalogRequests ==
  {[op |-> "GET /users", query |-> q] : q \in ListQueries(Opt("name", {<<"j">>}))}
  \cup {[op |-> "GET /users/:id", id |-> "u1"]}
  \cup {[op |-> "POST /users", body |-> b] :
          b \in IF Len(users) < MaxUsers /\ nextId <= MaxGen
                THEN {[name |-> <<"A", "l">>, email |-> "new@example.com", age |-> 41]}
                ELSE {}}
  \cup {[op |-> "PUT /users/:id", id |-> "u2",
         body |-> [name |-> <<"J", "a">>, email |-> "jane.smith@example.com", age |-> 26]]}
  \cup {[op |-> "PATCH /users/:id", id |-> "u1", body |-> [age |-> 31]]}
  \cup {[op |-> "DELETE /users/:id", id |-> "u1"]}
  \cup {[op |-> "GET /products", query |-> q] :
          q \in ListQueries(Opt("category", {"electronics"}))}
  \cup {[op |-> "GET /products/:id", id |-> "p1"]}
  \cup {[op |-> "POST /products", body |-> b] :
          b \in IF Len(products) < MaxProducts /\ nextId <= MaxGen
                THEN {[name |-> <<"B", "k">>, price |-> 1500, category |-> "books"]}
                ELSE {}}
  \cup {[op |-> "PUT /products/:id", id |-> "p2",
         body |-> [name |-> <<"M", "a">>, price |-> 100000, category |-> "electronics",
                   inStock |-> FALSE]]}
  \cup {[op |-> "PATCH /products/:id", id |-> "p1", body |-> [price |-> 1000]]}
  \cup {[op |-> "DELETE /products/:id", id |-> "p1"]}
  \cup {[op |-> "GET /orders", query |-> q] : q \in ListQueries(Opt("status", {"pending"}))}
  \cup {[op |-> "GET /orders/:id", id |-> "o1"]}
  \cup {[op |-> "POST /orders", body |-> b] :
          b \in IF Len(orders) < MaxOrders /\ nextId <= MaxGen
                THEN {[userId |-> "u2",
                       products |-> << [productId |-> "p1", quantity |-> 2] >>]}
                ELSE {}}
  \cup {[op |-> "PUT /orders/:id", id |-> "o1",
         body |-> [userId |-> "u2",
                   products |-> << [productId |-> "p2", quantity |-> 1, price |-> 3] >>,
                   totalAmount |-> 4]]}
  \cup {[op |-> "PATCH /orders/:id", id |-> "o1", body |-> [status |-> "cancelled"]]}
  \cup {[op |-> "DELETE /orders/:id", id |-> "o1"]}

\* the line items and bodies of POST /orders
OrderLines ==
  {[productId |-> "p1", quantity |-> 2], [productId |-> "p3", quantity |-> 3],
   [productId |-> UnknownId, quantity |-> 1]}

\* the same lines with a price supplied by the caller
PricedLines == {Spread(l, [price |-> 1]) : l \in OrderLines}

ListsOver(L) == {<<l>> : l \in L} \cup {<<l, m>> : l \in L, m \in L}

OrderBodies ==
  {[userId |-> u, products |-> l] : u \in {"u1", UnknownId}, l \in ListsOver(OrderLines)}
  \cup {[userId |-> u, products |-> l, status |-> "shipped"] :
          u \in {"u1", UnknownId}, l \in ListsOver(PricedLines)}
  \cup {[userId |-> "u1", products |-> <<>>]}

\* POST /orders, with the requests on /users and /products that change what it reads
OrdersRequests ==
  {[op |-> "POST /orders", body |-> b] :
          b \in IF Len(orders) < MaxOrders /\ nextId <= MaxGen THEN OrderBodies ELSE {}}
  \cup {[op |-> "PATCH /products/:id", id |-> "p1", body |-> b] :
          b \in {[price |-> 10], [inStock |-> FALSE]}}
  \cup {[op |-> "PATCH /products/:id", id |-> "p3", body |-> b] :
          b \in {[price |-> 5], [inStock |-> FALSE], [inStock |-> TRUE]}}
  \cup {[op |-> "POST /products", body |-> b] :
          b \in IF Len(products) < MaxProducts /\ nextId <= MaxGen
                THEN {[id |-> "p3", name |-> <<"T", "s", " ">>, price |-> 7,
                       category |-> "clothing"]}
                ELSE {}}
  \cup {[op |-> "DELETE /products/:id", id |-> "p3"]}
  \cup {[op |-> "DELETE /users/:id", id |-> "u1"]}

\* requests that fail a declared field rule
InvalidRequests ==
  {[op |-> "GET /users/:id", id |-> "not-a-uuid"],
   [op |-> "GET /users", query |-> [page |-> 0]],
   [op |-> "POST /users", body |-> [name |-> <<"A", "l">>, email |-> "new@example.com"]],
   [op |-> "PATCH /users/:id", id |-> "u1", body |-> [email |-> "not-an-email"]],
   [op |-> "DELETE /users/:id", id |-> "not-a-uuid"],
   [op |-> "GET /products", query |-> [limit |-> 101]],
   [op |-> "POST /products", body |-> [name |-> <<"B", "k">>, price |-> 1, category |-> "toys"]],
   [op |-> "PUT /products/:id", id |-> "p1", body |-> [price |-> 1]],
   [op |-> "DELETE /products/:id", id |-> "not-a-uuid"],
   [op |-> "GET /orders", query |-> [status |-> "lost"]],
   [op |-> "POST /orders", body |-> [userId |-> "u1", products |-> <<>>]],
   [op |-> "PUT /orders/:id", id |-> "o1",
    body |-> [userId |-> "u1",
              products |-> << [productId |-> "p1", quantity |-> 1, price |-> 1] >>]],
   [op |-> "PATCH /orders/:id", id |-> "o1", body |-> [status |-> "lost"]],
   [op |-> "DELETE /orders/:id", id |-> "not-a-uuid"]}

\* PUT /orders/:id with known and unknown order, user and products
OrderPutRequests ==
  {[op |-> "PUT /orders/:id", id |-> i,
    body |-> [userId |-> u, products |-> l, totalAmount |-> 7, status |-> "shipped"]] :
     i \in {"o1", UnknownId}, u \in {"u1", UnknownId},
     l \in {<< [productId |-> "p1", quantity |-> 1, price |-> 7] >>,
            << [productId |-> UnknownId, quantity |-> 1, price |-> 7] >>,
            << [productId |-> "p1", quantity |-> 1, price |-> 3],
               [productId |-> UnknownId, quantity |-> 1, price |-> 4] >>}}

\* errors a middleware hands to next(err) that carry no statusCode
Faults ==
  {[message |-> [text |-> "connect ECONNREFUSED 10.0.0.5:5432"]],
   [message |-> [text |-> "ENOENT: no such file /srv/app/.env"]],
   [message |-> [text |-> ""]]}

\* requests that end in notFound or errorHandler
ErrorRequests ==
  {[op |-> "GET /nowhere"],
   [op |-> "POST /users", malformed |-> TRUE],
   [op |-> "POST /orders", malformed |-> TRUE, fault |-> [type |-> "entity.too.large",
      statusCode |-> 413, message |-> [text |-> "request entity too large"]]]}
  \cup {[op |-> "PUT /products/:id", id |-> "p1",
         fault |-> [type |-> "entity.too.large", statusCode |-> 413,
                    message |-> [text |-> "request entity too large"]]]}
  \cup {[op |-> "GET /users", query |-> EmptyObj, fault |-> f] : f \in Faults}

\* one request per route, with the requests that fail
AppRequests ==
  {r \in CatalogRequests :
     r.op \in {"GET /users", "GET /products", "GET /orders"} => r.query = [page |-> 2]}
  \cup InvalidRequests \cup OrderPutRequests \cup ErrorRequests
  \cup {[op |-> "GET /users/:id", id |-> UnknownId],
        [op |-> "GET /products/:id", id |-> "p3"],
        [op |-> "DELETE /orders/:id", id |-> UnknownId]}

\* the limiter's clients: two addresses asking for, and deleting, one user
LimiterRequests ==
  {[op |-> o, id |-> "u1", ip |-> ip] :
     o \in {"GET /users/:id", "DELETE /users/:id"}, ip \in IPs}

\* PUT and PATCH with bodies that carry more than the routes validate
EditRequests ==
  {[op |-> "PATCH /orders/:id", id |-> i, body |-> [status |-> s]] :
     i \in {"o1", generateId(1)}, s \in Statuses}
  \cup {[op |-> "PATCH /orders/:id", id |-> "o1", body |-> b] :
          b \in {[totalAmount |-> 5],
                 [products |-> <<>>],
                 [products |-> << [productId |-> "p2", quantity |-> 0, price |-> 0 - 1] >>],
                 [id |-> generateId(1), createdAt |-> 9]}}
  \cup {[op |-> "PUT /orders/:id", id |-> "o1", body |-> b] :
          b \in {[userId |-> "u1", totalAmount |-> 7,
                  products |-> << [productId |-> "p1", quantity |-> 2, price |-> 3] >>]}}
  \cup {[op |-> "POST /orders", body |-> b] :
          b \in IF Len(orders) < MaxOrders /\ nextId <= MaxGen
                THEN {[userId |-> "u1",
                       products |-> << [productId |-> "p2", quantity |-> 1] >>]}
                ELSE {}}
  \cup {[op |-> "PATCH /products/:id", id |-> "p1", body |-> [inStock |-> FALSE]],
        [op |-> "PUT /products/:id", id |-> "p2",
         body |-> [id |-> "p1", name |-> <<"M", "a">>, price |-> 5,
                   category |-> "electronics", createdAt |-> 9]],
        [op |-> "PATCH /users/:id", id |-> "u1", body |-> [id |-> "u2", age |-> 31]],
        [op |-> "PUT /users/:id", id |-> "u2",
         body |-> [name |-> <<"J", "a">>, email |-> "jane.smith@example.com", age |-> 26,
                   createdAt |-> 9]]}

\* GET /products with every combination of the filters, over a catalogue
\* that changes
ProductListRequests ==
  {[op |-> "GET /products", query |-> c @@ mn @@ mx @@ st] :
     c \in Opt("category", {"clothing"}), mn \in Opt("minPrice", {0, 2999}),
     mx \in Opt("maxPrice", {0, 2999}), st \in Opt("inStock", {"true", "false", "1", "0"})}
  \cup {[op |-> "PATCH /products/:id", id |-> "p1", body |-> [inStock |-> FALSE]],
        [op |-> "PATCH /products/:id", id |-> "p3", body |-> [price |-> 0]]}
  \cup {[op |-> "POST /products", body |-> b] :
          b \in IF Len(products) < MaxProducts /\ nextId <= MaxGen
                THEN {[name |-> <<"B", "k">>, price |-> 1500, category |-> "books"]}
                ELSE {}}

\* two clients at once: the same new user from both (the email in two
\* spellings), an order, and the deletion of the user and of the product
\* the order names
ConcurrentRequests ==
  {[op |-> "POST /users", ip |-> ip,
    body |-> [name |-> <<"A", "l">>, email |-> e, age |-> 41]] :
     ip \in IPs, e \in {"new@example.com", "New@example.com"}}
  \cup {[op |-> "POST /orders", ip |-> ip,
         body |-> [userId |-> "u1",
                   products |-> << [productId |-> "p3", quantity |-> 1] >>]] : ip \in IPs}
  \cup {[op |-> "DELETE /users/:id", id |-> "u1", ip |-> ip] : ip \in IPs}
  \cup {[op |-> "DELETE /products/:id", id |-> "p3", ip |-> ip] : ip \in IPs}

\* the validation chain of the route a request is for
Errors(r) ==
  CASE r.op = "GET /users" -> UserListErrors(r.query)
    [] r.op \in {"GET /users/:id", "DELETE /users/:id"} -> IdErrors(r, "Invalid user ID format")
    [] r.op = "POST /users" -> UserBodyErrors(r.body, FALSE)
    [] r.op = "PUT /users/:id" ->
         IdErrors(r, "Invalid user ID format") \o UserBodyErrors(r.body, FALSE)
    [] r.op = "PATCH /users/:id" ->
         IdErrors(r, "Invalid user ID format") \o UserBodyErrors(r.body, TRUE)
    [] r.op = "GET /products" -> ProductListErrors(r.query)
    [] r.op \in {"GET /products/:id", "DELETE /products/:id"} ->
         IdErrors(r, "Invalid product ID format")
    [] r.op = "POST /products" -> ProductBodyErrors(r.body, FALSE)
    [] r.op = "PUT /products/:id" ->
         IdErrors(r, "Invalid product ID format") \o ProductBodyErrors(r.body, FALSE)
    [] r.op = "PATCH /products/:id" ->
         IdErrors(r, "Invalid product ID format") \o ProductBodyErrors(r.body, TRUE)
    [] r.op = "GET /orders" -> OrderListErrors(r.query)
    [] r.op \in {"GET /orders/:id", "DELETE /orders/:id"} ->
         IdErrors(r, "Invalid order ID format")
    [] r.op = "POST /orders" -> OrderBodyErrors(r.body)
    [] r.op = "PUT /orders/:id" ->
         IdErrors(r, "Invalid order ID format") \o OrderPutErrors(r.body)
    [] r.op = "PATCH /orders/:id" ->
         IdErrors(r, "Invalid order ID format") \o OrderPatchErrors(r.body)

\* the sanitizers of the route a request is for
Sanitize(r) ==
  CASE r.op \in {"GET /users", "GET /products"} -> [r EXCEPT !.query = SanitizeQuery(@)]
    [] r.op \in {"POST /users", "PUT /users/:id", "PATCH /users/:id"} ->
         [r EXCEPT !.body = SanitizeUserBody(@)]
    [] r.op \in {"POST /products", "PUT /products/:id", "PATCH /products/:id"} ->
         [r EXCEPT !.body = SanitizeProductBody(@)]
    [] OTHER -> r

(***************************************************************************)
(* server.js: the middleware in front of the routes (limiter, JSON body   *)
(* parser) and behind them (notFound, errorHandler).                       *)
(***************************************************************************)
\* rateLimit({ max: 100 })
limiter_max == 100

\* rateLimit({ message: {...} }): the body of the 429 answer
limiter_message ==
  [status |-> 429,
   error |-> "Too many requests from this IP, please try again later.",
   statusCode |-> 429]

Ip_OneBucket(r) == "ip1"

\* the key the limiter counts under
Ip(r) == IF Has(r, "ip") THEN r.ip ELSE "ip1"

\* the routes the three routers declare
RoutesOf(resource) ==
  {"GET /" \o resource, "GET /" \o resource \o "/:id", "POST /" \o resource,
   "PUT /" \o resource \o "/:id", "PATCH /" \o resource \o "/:id",
   "DELETE /" \o resource \o "/:id"}

Routes == RoutesOf("users") \cup RoutesOf("products") \cup RoutesOf("orders")

\* req.method
Method(r) ==
  CASE \E x \in {"users", "products", "orders", "nowhere"} :
         r.op \in {"GET /" \o x, "GET /" \o x \o "/:id"} -> "GET"
    [] \E x \in {"users", "products", "orders"} : r.op = "POST /" \o x -> "POST"
    [] \E x \in {"users", "products", "orders"} : r.op = "PUT /" \o x \o "/:id" -> "PUT"
    [] \E x \in {"users", "products", "orders"} : r.op = "PATCH /" \o x \o "/:id" -> "PATCH"
    [] OTHER -> "DELETE"

\* req.originalUrl, without the query string
OriginalUrl(r) ==
  LET base == CASE r.op \in RoutesOf("users") -> "/api/v1/users"
                [] r.op \in RoutesOf("products") -> "/api/v1/products"
                [] r.op \in RoutesOf("orders") -> "/api/v1/orders"
                [] OTHER -> "/api/v1/nowhere"
  IN  IF Has(r, "id") THEN base \o "/" \o r.id ELSE base

\* express.json() on a body that is not JSON: next(err) with a SyntaxError
ParseError ==
  [type |-> "entity.parse.failed", statusCode |-> 400,
   message |-> [text |-> "Unexpected token in JSON"]]

\* notFound: next(error) with statusCode 404
notFound(r) ==
  [message |-> [text |-> "Route not found", url |-> OriginalUrl(r)], statusCode |-> 404]

NODE_ENV == "production"

ErrorResponse_Always500(err, r) ==
  Spread(ErrorJson(500, [text |-> "Internal Server Error"]),
         [path |-> OriginalUrl(r), method |-> Method(r)])

\* errorHandler: the response it writes for err
ErrorResponse(err, r) ==
  LET e0 == err
      e1 == IF Has(err, "name") /\ err.name = "CastError"
            THEN [message |-> [text |-> "Resource not found"], statusCode |-> 404] ELSE e0
      e2 == IF Has(err, "code") /\ err.code = 11000
            THEN [message |-> [text |-> "Duplicate field value entered"], statusCode |-> 400]
            ELSE e1
      e3 == IF Has(err, "name") /\ err.name = "ValidationError"
            THEN [message |-> [text |-> "joined", parts |-> err.errors], statusCode |-> 400]
            ELSE e2
      e4 == IF Has(err, "name") /\ err.name = "JsonWebTokenError"
            THEN [message |-> [text |-> "Invalid token"], statusCode |-> 401] ELSE e3
      e5 == IF Has(err, "name") /\ err.name = "TokenExpiredError"
            THEN [message |-> [text |-> "Token expired"], statusCode |-> 401] ELSE e4
      error == IF Has(err, "type") /\ err.type = "entity.parse.failed"
               THEN [message |-> [text |-> "Invalid JSON format"], statusCode |-> 400]
               ELSE e5
      statusCode == IF Has(error, "statusCode") /\ error.statusCode # 0
                    THEN error.statusCode ELSE 500
      message == IF Has(error, "message") /\ error.message.text # ""
                 THEN error.message ELSE [text |-> "Internal Server Error"]
  IN  Spread(Spread(ErrorJson(statusCode, message),
                    [path |-> OriginalUrl(r), method |-> Method(r)]),
             IF NODE_ENV = "development" THEN [stack |-> "stack"] ELSE EmptyObj)

\* errorHandler(err, req, res, next)
errorHandler ==
  /\ pc = "error"
  /\ resp' = ErrorResponse(req.err, req.sent)
  /\ pc' = "done"
  /\ UNCHANGED <<users, products, orders, req, nextId, now, tick, hits, clients>>

\* a request arrives: the limiter counts it (fresh: its window has elapsed
\* since the previous request), the body is parsed, and the request runs
\* through the validation chain of its route or, when no route matches,
\* to notFound; req.sent keeps the request as the client sent it
Receive(R, Ticks, Fresh) ==
  /\ pc = "idle"
  /\ \E r \in R, fresh \in Fresh :
       LET counted == [(IF fresh THEN [ip \in IPs |-> 0] ELSE hits)
                         EXCEPT ![Ip(r)] = @ + 1]
       IN  /\ counted[Ip(r)] <= limiter_max + MaxOver
           /\ hits' = counted
           /\ IF counted[Ip(r)] > limiter_max
              THEN /\ req' = Spread(r, [sent |-> r])
                   /\ resp' = limiter_message
                   /\ pc' = "done"
              ELSE IF Has(r, "malformed") \/ Has(r, "fault") \/ r.op \notin Routes
              THEN /\ req' = Spread(r, [sent |-> r,
                                        err |-> IF Has(r, "malformed") THEN ParseError
                                                ELSE IF Has(r, "fault") THEN r.fault
                                                ELSE notFound(r)])
                   /\ resp' = NoResp
                   /\ pc' = "error"
              ELSE IF Errors(r) # <<>>
              THEN /\ req' = Spread(r, [sent |-> r])
                   /\ resp' = validate(Errors(r))
                   /\ pc' = "done"
              ELSE /\ req' = Spread(Sanitize(r), [sent |-> r])
                   /\ resp' = NoResp
                   /\ pc' = "validated"
  /\ tick' \in Ticks
  /\ UNCHANGED <<users, products, orders, nextId, now, clients>>

\* every route, a few requests each
ReceiveCatalog == Receive(CatalogRequests, {0}, {TRUE})

Next == ReceiveCatalog \/ UsersRoutes \/ ProductsRoutes \/ OrdersRoutes \/ Respond

Spec == Init /\ [][Next]_vars

\* the routes of /users, with bodies that vary the email and carry an id
ReceiveUsers == Receive(UsersRequests, {0}, {TRUE})

NextUsers == ReceiveUsers \/ UsersRoutes \/ Respond

SpecUsers == Init /\ [][NextUsers]_vars

\* order creation against a changing catalogue
ReceiveOrders == Receive(OrdersRequests, {0}, {TRUE})

NextOrders ==
  \/ ReceiveOrders
  \/ PostOrder
  \/ PostProduct
  \/ PatchProduct
  \/ DeleteProduct
  \/ DeleteUser
  \/ Respond

SpecOrders == Init /\ [][NextOrders]_vars

\* the whole application, failing requests included
ReceiveApp == Receive(AppRequests, {0}, {TRUE})

NextApp ==
  ReceiveApp \/ UsersRoutes \/ ProductsRoutes \/ OrdersRoutes \/ errorHandler \/ Respond

SpecApp == Init /\ [][NextApp]_vars

\* the three creates, with a clock that may advance while a create executes
ReceiveCreates ==
  Receive({r \in CatalogRequests :
             r.op \in {"POST /users", "POST /products", "POST /orders", "GET /users/:id",
                       "DELETE /products/:id"}},
          {0, 1}, {TRUE})

NextClock ==
  \/ ReceiveCreates
  \/ PostUser
  \/ PostProduct
  \/ PostOrder
  \/ GetUserById
  \/ DeleteProduct
  \/ Respond

SpecClock == Init /\ [][NextClock]_vars

\* two clients against the limiter, within a window and across windows
ReceiveLimited == Receive(LimiterRequests, {0}, {TRUE, FALSE})

NextLimiter == ReceiveLimited \/ GetUserById \/ DeleteUser \/ Respond

SpecLimiter == Init /\ [][NextLimiter]_vars

\* updates of stored records, with bodies that carry unvalidated fields
ReceiveEdits == Receive(EditRequests, {0}, {TRUE})

NextEdits ==
  \/ ReceiveEdits
  \/ PutUser
  \/ PatchUser
  \/ PutProduct
  \/ PatchProduct
  \/ PostOrder
  \/ PutOrder
  \/ PatchOrder
  \/ Respond

SpecEdits == Init /\ [][NextEdits]_vars

\* the product list under every filter
ReceiveProductList == Receive(ProductListRequests, {0}, {TRUE})

NextProductList ==
  ReceiveProductList \/ GetProducts \/ PatchProduct \/ PostProduct \/ Respond

SpecProductList == Init /\ [][NextProductList]_vars

\* the three collections of the store
Collections == <<users, products, orders>>

\* the store's update called directly, as any caller of the module may:
\* with known and unknown ids and with partials of every shape; req records
\* the call and resp.returned the value it returned
UserPartials ==
  {EmptyObj, [age |-> 31], [name |-> <<"A">>, email |-> "a@example.com"],
   [id |-> UnknownId], [createdAt |-> 9, age |-> 31], [updatedAt |-> 9]}

ProductPartials == {[price |-> 10, inStock |-> FALSE], [updatedAt |-> 9, description |-> "d"]}

OrderPartials == {[status |-> "shipped"], [totalAmount |-> 5, products |-> <<>>]}

StoreCall(c, id, data, d) ==
  /\ pc = "idle"
  /\ now + d <= MaxClock
  /\ req' = [op |-> "update", collection |-> c, id |-> id, data |-> data]
  /\ resp' = [status |-> 0, returned |-> UpdateReturn(Collections[c], id, data, now)]
  /\ now' = now + d
  /\ UNCHANGED <<pc, nextId, tick, hits, clients>>

userOperations_update_call ==
  \E id \in {"u2", UnknownId}, userData \in UserPartials, d \in {0, 1} :
    /\ StoreCall(1, id, userData, d)
    /\ users' = userOperations_update(users, id, userData, now)
    /\ UNCHANGED <<products, orders>>

productOperations_update_call ==
  \E id \in {"p2", UnknownId}, productData \in ProductPartials, d \in {0, 1} :
    /\ StoreCall(2, id, productData, d)
    /\ products' = productOperations_update(products, id, productData, now)
    /\ UNCHANGED <<users, orders>>

orderOperations_update_call ==
  \E id \in {"o1", UnknownId}, orderData \in OrderPartials, d \in {0, 1} :
    /\ StoreCall(3, id, orderData, d)
    /\ orders' = orderOperations_update(orders, id, orderData, now)
    /\ UNCHANGED <<users, products>>

NextStore ==
  userOperations_update_call \/ productOperations_update_call \/ orderOperations_update_call

SpecStore == Init /\ [][NextStore]_vars

\* requests in flight together.  Each client sends one request.  The
\* middleware of a chain completes asynchronously, so a request that has
\* passed its chain may wait (Park) while the event loop serves the other
\* client, and is taken up again (Resume) at its handler; the handler is a
\* synchronous function and runs as one step.
ReceiveConcurrent ==
  Receive({r \in ConcurrentRequests :
             clients[r.ip].at = "none"},
          {0}, {TRUE})

Park ==
  /\ pc = "validated"
  /\ clients' = [clients EXCEPT ![Ip(req)] = [at |-> "waiting", req |-> req]]
  /\ pc' = "idle"
  /\ req' = NoReq
  /\ UNCHANGED <<users, products, orders, resp, nextId, now, tick, hits>>

Resume ==
  /\ pc = "idle"
  /\ \E ip \in IPs :
       /\ clients[ip].at = "waiting"
       /\ req' = clients[ip].req
       /\ clients' = [clients EXCEPT ![ip] = [at |-> "handling"]]
  /\ pc' = "validated"
  /\ UNCHANGED <<users, products, orders, resp, nextId, now, tick, hits>>

\* the response is written to the client that sent the request
RespondTo ==
  /\ pc = "done"
  /\ clients' = [clients EXCEPT ![Ip(req)] =
                   [at |-> "answered", req |-> req, status |-> resp.status]]
  /\ pc' = "idle"
  /\ req' = NoReq
  /\ resp' = NoResp
  /\ tick' = 0
  /\ UNCHANGED <<users, products, orders, nextId, now, hits>>

NextConcurrent ==
  \/ ReceiveConcurrent
  \/ Park
  \/ Resume
  \/ PostUser
  \/ PostOrder
  \/ DeleteUser
  \/ DeleteProduct
  \/ RespondTo

SpecConcurrent == Init /\ [][NextConcurrent]_vars

(***************************************************************************)
(* Properties.  A handler step is a step from pc = "validated": req is   *)
(* the request it handles, the unprimed collections are the store before  *)
(* the call and resp' is the response.                                    *)
(***************************************************************************)
Handles(op) == pc = "validated" /\ req.op = op

Handled(op) == pc = "done" /\ req.op = op /\ resp.status # 400

\* C1: in every reachable state of the /users routes no two stored users
\* have the same email.
C1_EmailUnique ==
  \A i, j \in 1..Len(users) : i # j => users[i].email # users[j].email

\* C8 as stated: a POST /users whose email, as sent, equals the email of a
\* stored user is answered 409 and leaves users unchanged; when no stored
\* user has the email as sent, the user is created with 201.
C8_SentEmailDecides ==
  [][Handles("POST /users") =>
       IF \E i \in 1..Len(users) : users[i].email = req.sent.body.email
       THEN /\ resp'.status = 409
            /\ resp'.message = [text |-> "User with this email already exists"]
            /\ users' = users
       ELSE /\ resp'.status = 201
            /\ Len(users') = Len(users) + 1]_vars

\* the address lower-cased, as the claim's amendment reads it
LowerCased(e) ==
  CASE e = "JOHN.DOE@example.com" -> "john.doe@example.com"
    [] e = "New@example.com" -> "new@example.com"
    [] OTHER -> e

\* C8 as amended: a valid POST /users whose lower-cased email equals the
\* email of a stored user is answered 409 "User with this email already
\* exists", whatever its other fields, and leaves users unchanged; otherwise
\* the user is appended, with the lower-cased email, and the answer is 201.
C8_NormalizedEmailDecides ==
  [][Handles("POST /users") =>
       IF \E i \in 1..Len(users) : users[i].email = LowerCased(req.sent.body.email)
       THEN /\ resp'.status = 409
            /\ resp'.message = [text |-> "User with this email already exists"]
            /\ users' = users
       ELSE /\ resp'.status = 201
            /\ Len(users') = Len(users) + 1
            /\ SubSeq(users', 1, Len(users)) = users
            /\ users'[Len(users')].email = LowerCased(req.sent.body.email)]_vars

\* a duplicate reported for an address that is stored only in lower case
C8_Witness ==
  /\ Handled("POST /users")
  /\ resp.status = 409
  /\ \A i \in 1..Len(users) : users[i].email # req.sent.body.email
  /\ \E i \in 1..Len(users) :
       users[i].email = LowerCased(req.sent.body.email) /\ users[i].name # req.body.name

\* C9: PUT and PATCH on /users/:id answer 404 when the id is not stored;
\* answer 409 and change no user when the request's email differs from the
\* target's email and equals the email of another stored user; and succeed
\* when the email is absent or equals the target's own email.
C9_UpdateEmailRule ==
  [][(Handles("PUT /users/:id") \/ Handles("PATCH /users/:id")) =>
       IF req.id \notin StoredIds(users)
       THEN resp'.status = 404
       ELSE LET t == FindIndex(users, req.id)
            IN  IF ~Has(req.sent.body, "email") \/ req.sent.body.email = users[t].email
                THEN resp'.status = 200
                ELSE (\E k \in 1..Len(users) :
                        k # t /\ users[k].email = req.sent.body.email)
                     => (resp'.status = 409 /\ users' = users)]_vars

\* the product a line item refers to: the one the store's lookup returns
Referenced(ps, item) == FindById(ps, item.productId)

\* C2: POST /orders with a userId that is not stored is answered 404 "User
\* not found" whatever the product list, and orders is left as it was.
C2_UnknownUser404 ==
  [][(Handles("POST /orders") /\ req.body.userId \notin StoredIds(users)) =>
       /\ resp'.status = 404
       /\ resp'.message = [text |-> "User not found"]
       /\ orders' = orders]_vars

\* an unknown user ordering a list with a missing and an out-of-stock product
C2_Witness ==
  /\ Handled("POST /orders")
  /\ req.body.userId \notin StoredIds(users)
  /\ resp.status = 404
  /\ \E i \in 1..Len(req.body.products) :
       req.body.products[i].productId \notin StoredIds(products)
  /\ \E i \in 1..Len(req.body.products) :
       /\ req.body.products[i].productId \in StoredIds(products)
       /\ Referenced(products, req.body.products[i]).inStock = FALSE

RECURSIVE SumOfLines(_)
SumOfLines(lines) ==
  IF lines = <<>> THEN 0
  ELSE Head(lines).price * Head(lines).quantity + SumOfLines(Tail(lines))

\* C3: after a successful POST /orders the stored order's totalAmount is the
\* sum over its lines of price x quantity, each line's price being the
\* price of the referenced product in the store at creation.
C3_TotalIsSum ==
  (Handled("POST /orders") /\ resp.status = 201) =>
    LET o == orders[Len(orders)]
    IN  /\ o.totalAmount = SumOfLines(o.products)
        /\ \A i \in 1..Len(o.products) :
             o.products[i].price = Referenced(products, o.products[i]).price

\* the lines (10, 2) and (5, 3) give 35
C3_Witness ==
  /\ Handled("POST /orders") /\ resp.status = 201
  /\ LET o == orders[Len(orders)]
     IN  /\ Len(o.products) = 2
         /\ o.products[1].price = 10 /\ o.products[1].quantity = 2
         /\ o.products[2].price = 5 /\ o.products[2].quantity = 3
         /\ o.totalAmount = 35

\* C4 as stated: POST /orders with a stored userId and a list in which some
\* productId is not stored is answered 404 naming a missing product id,
\* wherever the missing entry is and whatever the stock of the others, and
\* no order is stored.
C4_MissingProduct404 ==
  [][(/\ Handles("POST /orders")
      /\ req.body.userId \in StoredIds(users)
      /\ \E i \in 1..Len(req.body.products) :
           req.body.products[i].productId \notin StoredIds(products)) =>
       /\ resp'.status = 404
       /\ resp'.message.text = "Product with ID not found"
       /\ resp'.message.id \notin StoredIds(products)
       /\ orders' = orders]_vars

\* the position of the first line whose product is not stored
FirstMissing(ps, items) ==
  CHOOSE i \in 1..Len(items) :
    /\ items[i].productId \notin StoredIds(ps)
    /\ \A j \in 1..(i - 1) : items[j].productId \in StoredIds(ps)

\* C4 as amended: such a request stores no order and is answered 404 naming
\* the first missing product id when every line before it refers to a
\* product in stock, and 400 "out of stock" when a line before it refers to
\* a product that is not in stock.
C4_FirstFailingLineDecides ==
  [][(/\ Handles("POST /orders")
      /\ req.body.userId \in StoredIds(users)
      /\ \E i \in 1..Len(req.body.products) :
           req.body.products[i].productId \notin StoredIds(products)) =>
       LET items == req.body.products
           m == FirstMissing(products, items)
       IN  /\ orders' = orders
           /\ IF \A j \in 1..(m - 1) :
                   /\ Has(Referenced(products, items[j]), "inStock")
                   /\ Referenced(products, items[j]).inStock = TRUE
              THEN /\ resp'.status = 404
                   /\ resp'.message = [text |-> "Product with ID not found",
                                       id |-> items[m].productId]
              ELSE /\ resp'.status = 400
                   /\ resp'.message.text = "Product is out of stock"]_vars

\* a missing product in second position, behind one that is in stock
C4_Witness ==
  /\ Handled("POST /orders")
  /\ resp.status = 404
  /\ Len(req.body.products) = 2
  /\ req.body.products[1].productId \in StoredIds(products)
  /\ req.body.products[2].productId \notin StoredIds(products)
  /\ resp.message = [text |-> "Product with ID not found",
                     id |-> req.body.products[2].productId]

\* C5: POST /orders with a stored userId and a list whose products are all
\* stored is answered 400 (out of stock) when some referenced product has
\* inStock = false, and no order is stored.
C5_OutOfStock400 ==
  [][(/\ Handles("POST /orders")
      /\ req.body.userId \in StoredIds(users)
      /\ \A i \in 1..Len(req.body.products) :
           req.body.products[i].productId \in StoredIds(products)
      /\ \E i \in 1..Len(req.body.products) :
           LET product == Referenced(products, req.body.products[i])
           IN  Has(product, "inStock") /\ product.inStock = FALSE) =>
       /\ resp'.status = 400
       /\ resp'.message.text = "Product is out of stock"
       /\ orders' = orders]_vars

\* the out-of-stock product is the second line, behind one in stock
C5_Witness ==
  /\ pc = "done" /\ req.op = "POST /orders"
  /\ resp.status = 400
  /\ resp.message.text = "Product is out of stock"
  /\ Len(req.body.products) = 2
  /\ \A i \in 1..2 : req.body.products[i].productId \in StoredIds(products)
  /\ Referenced(products, req.body.products[1]).inStock = TRUE
  /\ Referenced(products, req.body.products[2]).inStock = FALSE

\* C6: a successful POST /orders stores an order with status "pending" whose
\* lines are, in the order submitted, {productId, quantity} of the request
\* plus the price of the referenced product; a status or line price in the
\* body has no effect.
C6_StoredOrderShape ==
  (Handled("POST /orders") /\ resp.status = 201) =>
    LET o == orders[Len(orders)]
        items == req.sent.body.products
    IN  /\ resp.data = o
        /\ o.status = "pending"
        /\ o.userId = req.sent.body.userId
        /\ Len(o.products) = Len(items)
        /\ \A i \in 1..Len(items) :
             o.products[i] = [productId |-> items[i].productId,
                              quantity |-> items[i].quantity,
                              price |-> Referenced(products, items[i]).price]

\* the body carried a status and a price on every line
C6_Witness ==
  /\ Handled("POST /orders") /\ resp.status = 201
  /\ Has(req.sent.body, "status") /\ req.sent.body.status # "pending"
  /\ Len(req.sent.body.products) = 2
  /\ \A i \in 1..2 :
       /\ Has(req.sent.body.products[i], "price")
       /\ req.sent.body.products[i].price # orders[Len(orders)].products[i].price

\* C7: no request on /users or /products changes the orders collection:
\* every order keeps its userId, lines, totalAmount and status when a price
\* changes or a referenced user or product is deleted.
C7_OrdersUntouched ==
  [][(pc = "validated" /\
      req.op \in {"GET /users", "GET /users/:id", "POST /users", "PUT /users/:id",
                  "PATCH /users/:id", "DELETE /users/:id", "GET /products",
                  "GET /products/:id", "POST /products", "PUT /products/:id",
                  "PATCH /products/:id", "DELETE /products/:id"}) =>
       orders' = orders]_vars

\* the user of an order has just been deleted, and the price of one of its
\* products has changed since the order was made
C7_Witness ==
  /\ Handled("DELETE /users/:id") /\ resp.status = 200
  /\ \E i \in 1..Len(orders) :
       /\ orders[i].userId = req.id
       /\ orders[i].userId \notin StoredIds(users)
       /\ \E k \in 1..Len(orders[i].products) :
            /\ orders[i].products[k].productId \in StoredIds(products)
            /\ Referenced(products, orders[i].products[k]).price
                 # orders[i].products[k].price

\* the answer of list endpoint k (1 users, 2 products, 3 orders) to query q,
\* and the filtered set it pages through
ListAnswer(k, q) ==
  CASE k = 1 -> Paginate(FilterUsers(userOperations_getAll(users), q), q)
    [] k = 2 -> Paginate(FilterProducts(productOperations_getAll(products), q), q)
    [] k = 3 -> Paginate(FilterOrders(orderOperations_getAll(orders), q), q)

FilteredSet(k, q) ==
  CASE k = 1 -> FilterUsers(users, q)
    [] k = 2 -> FilterProducts(products, q)
    [] k = 3 -> FilterOrders(orders, q)

RECURSIVE PagesUpTo(_, _, _)
PagesUpTo(k, q, n) ==
  IF n = 0 THEN <<>>
  ELSE PagesUpTo(k, q, n - 1) \o ListAnswer(k, Spread(q, [page |-> n])).data

\* the filter each list endpoint is asked with (none, or one it supports)
ListFilters(k) ==
  CASE k = 1 -> Opt("name", {<<"j">>})
    [] k = 2 -> Opt("category", {"electronics"})
    [] k = 3 -> Opt("status", {"delivered"})

\* C10: on every list endpoint, whatever the stored collections and for
\* limits in 1..100: total is the size of the filtered set, totalPages is
\* ceil(total / limit), a page holds at most limit records, and pages
\* 1..totalPages in order are the filtered set; without page and limit the
\* answer is page 1 with limit 10.  (Stated between two requests: handling
\* and answering a request leave the collections as the handler made them.)
C10_Pagination ==
  pc = "idle" =>
  \A k \in 1..3 :
    \A f \in ListFilters(k) :
      \A lm \in Opt("limit", {1, 2, 100}) :
        LET q == Spread(f, lm)
            full == FilteredSet(k, q)
            limit == IF Has(lm, "limit") THEN lm.limit ELSE 10
            first == ListAnswer(k, q)
            pages == first.pagination.totalPages
        IN  /\ first.pagination.page = 1
            /\ first.pagination.limit = limit
            /\ first.pagination.total = Len(full)
            /\ pages >= 0
            /\ pages * limit >= Len(full)
            /\ pages > 0 => (pages - 1) * limit < Len(full)
            /\ \A p \in 1..(pages + 1) :
                 LET a == ListAnswer(k, Spread(q, [page |-> p]))
                 IN  /\ Len(a.data) <= limit
                     /\ a.pagination = [page |-> p, limit |-> limit,
                                        total |-> Len(full), totalPages |-> pages]
            /\ first.data = ListAnswer(k, Spread(q, [page |-> 1])).data
            /\ PagesUpTo(k, q, pages) = full

\* the second of several pages has been served
C10_Witness ==
  /\ pc = "done" /\ req.op \in {"GET /users", "GET /products", "GET /orders"}
  /\ resp.status = 200
  /\ resp.pagination.page = 2
  /\ resp.pagination.totalPages >= 2
  /\ Len(resp.data) = resp.pagination.limit

\* the three collections

\* the field rules the claim gives as examples, read off the request as sent
BreaksRule(r) ==
  \/ Has(r, "id") /\ r.id = "not-a-uuid"
  \/ Has(r, "query") /\ Has(r.query, "page") /\ r.query.page < 1
  \/ Has(r, "query") /\ Has(r.query, "limit") /\ r.query.limit \notin 1..100
  \/ Has(r, "query") /\ Has(r.query, "status") /\ r.query.status \notin Statuses
  \/ r.op \in {"PUT /orders/:id", "PATCH /orders/:id"}
       /\ Has(r.body, "status") /\ r.body.status \notin Statuses
  \/ r.op \in {"POST /users", "PUT /users/:id"}
       /\ ~({"name", "email", "age"} \subseteq DOMAIN r.body)
  \/ r.op \in {"POST /products", "PUT /products/:id"}
       /\ ~({"name", "price", "category"} \subseteq DOMAIN r.body)
  \/ r.op = "PUT /orders/:id"
       /\ ~({"userId", "products", "totalAmount"} \subseteq DOMAIN r.body)

C12_DeletedStaysGone ==
  [][/\ (Handles("DELETE /users/:id") /\ resp'.status = 200) =>
          req.id \notin StoredIds(users')
     /\ \A id \in StoredIds(SeedUsers) :
          id \notin StoredIds(users) => id \notin StoredIds(users')
     /\ ((\/ Handles("GET /users/:id") \/ Handles("PUT /users/:id")
          \/ Handles("PATCH /users/:id") \/ Handles("DELETE /users/:id"))
         /\ req.id \notin StoredIds(users)) =>
          (resp'.status = 404 /\ resp'.message = [text |-> "User not found"])]_vars

\* C13: after a successful POST /users, GET with the returned id (the store
\* not having changed since) answers the record POST returned; that record
\* carries the submitted name, email and age as sent, a generated id, and
\* createdAt and updatedAt.
C13_RoundTrip ==
  (Handled("POST /users") /\ resp.status = 201) =>
    LET posted == resp.data
        got == userOperations_getById(users, posted.id)
    IN  /\ got = posted
        /\ \A k \in {"name", "email", "age"} : posted[k] = req.sent.body[k]
        /\ posted.id = generateId(nextId - 1)
        /\ {"createdAt", "updatedAt"} \subseteq DOMAIN posted

\* C14: the record a create returns (POST /users, /products, /orders
\* answered 201) has createdAt = updatedAt, also when the clock advances
\* between the two readings the create makes.
C14_CreatedEqualsUpdated ==
  (pc = "done" /\ req.op \in {"POST /users", "POST /products", "POST /orders"}
   /\ resp.status = 201) =>
    resp.data.createdAt = resp.data.updatedAt

\* the collection a by-id route reads
CollectionOf(op) ==
  CASE op \in RoutesOf("users") -> users
    [] op \in RoutesOf("products") -> products
    [] op \in RoutesOf("orders") -> orders

\* C15: no GET, list or by id, changes a collection; and the data a by-id
\* GET returns is fixed by the collection and the id (the first stored
\* record with that id), so that two such GETs with no mutation between
\* them return the same data.
C15_GetIsPure ==
  [][(pc = "validated"
      /\ req.op \in {"GET /users", "GET /products", "GET /orders",
                     "GET /users/:id", "GET /products/:id", "GET /orders/:id"}) =>
       /\ Collections' = Collections
       /\ (Has(req, "id") /\ resp'.status = 200) =>
            \E i \in 1..Len(CollectionOf(req.op)) :
              /\ resp'.data = CollectionOf(req.op)[i]
              /\ resp'.data.id = req.id
              /\ \A j \in 1..(i - 1) : CollectionOf(req.op)[j].id # req.id
       /\ (Has(req, "id") /\ resp'.status # 200) =>
            (resp'.status = 404 /\ req.id \notin StoredIds(CollectionOf(req.op)))]_vars

\* a user that was changed since the store was seeded has been read
C15_Witness ==
  /\ Handled("GET /users/:id") /\ resp.status = 200
  /\ resp.data \in {users[i] : i \in 1..Len(users)}
  /\ resp.data \notin {SeedUsers[i] : i \in 1..Len(SeedUsers)}

\* C16: a request answered with a 4xx or 5xx status, by the validation
\* chain, by a handler or by errorHandler, leaves users, products and orders
\* as they were.
C16_ErrorsLeaveStore ==
  [][(pc # "done" /\ pc' = "done" /\ resp'.status >= 400) =>
       Collections' = Collections]_vars

\* PUT /orders/:id has failed on its last check, the order and the user
\* being stored
C16_Witness ==
  /\ Handled("PUT /orders/:id") /\ resp.status = 404
  /\ req.id \in StoredIds(orders)
  /\ req.body.userId \in StoredIds(users)
  /\ resp.message.text = "Product with ID not found"

\* C17: every error response has the envelope error = true, message,
\* statusCode, timestamp, path and method.
C17_UniformEnvelope ==
  (pc = "done" /\ resp.status >= 400) =>
    /\ {"error", "message", "statusCode", "timestamp", "path", "method"}
         \subseteq DOMAIN resp
    /\ resp.error = TRUE
    /\ resp.statusCode = resp.status

\* C18: an error that reaches errorHandler with no recognised kind (name,
\* code, type) and no statusCode is answered 500 with the fixed message
\* "Internal Server Error", whatever the error's own message.
C18_GenericMessage ==
  (pc = "done" /\ Has(req, "err")
   /\ DOMAIN req.err \cap {"name", "code", "type", "statusCode"} = {}) =>
    /\ resp.status = 500
    /\ resp.message = [text |-> "Internal Server Error"]

\* C19: a request from an address that already has limiter_max requests
\* counted in the running window is answered 429 with the limiter's body,
\* takes no handler and changes no collection; a request is answered 429
\* only when its address has more than limiter_max requests in the window,
\* so the first limiter_max are passed on and the next one is refused.
C19_RateLimit ==
  [][(pc = "idle" /\ pc' # "idle") =>
       LET ip == req'.sent.ip
       IN  /\ (hits[ip] >= limiter_max /\ hits'[ip] = hits[ip] + 1) =>
                /\ resp' = [status |-> 429, statusCode |-> 429,
                            error |-> "Too many requests from this IP, please try again later."]
                /\ pc' = "done"
                /\ Collections' = Collections
           /\ (resp'.status = 429) = (hits'[ip] > limiter_max)
           /\ (hits[ip] < limiter_max /\ hits'[ip] = hits[ip] + 1) => pc' = "validated"]_vars

\* the 101st request of a window, a DELETE, refused with its user still stored
C19_Witness ==
  /\ pc = "done" /\ req.op = "DELETE /users/:id"
  /\ resp.status = 429
  /\ hits[req.sent.ip] = limiter_max + 1
  /\ req.id \in StoredIds(users)

\* C20: PUT /orders/:id answers 404 "Order not found" when the id is not
\* stored; else 404 "User not found" when the body's userId is not stored;
\* else 404 naming a product id of the body that is not stored when there is
\* one; in the three cases orders is left as it was.
C20_PutOrderChecks ==
  [][Handles("PUT /orders/:id") =>
       IF req.id \notin StoredIds(orders)
       THEN /\ resp'.status = 404 /\ resp'.message = [text |-> "Order not found"]
            /\ orders' = orders
       ELSE IF req.body.userId \notin StoredIds(users)
       THEN /\ resp'.status = 404 /\ resp'.message = [text |-> "User not found"]
            /\ orders' = orders
       ELSE (\E i \in 1..Len(req.body.products) :
               req.body.products[i].productId \notin StoredIds(products)) =>
            /\ resp'.status = 404
            /\ resp'.message.text = "Product with ID not found"
            /\ resp'.message.id \notin StoredIds(products)
            /\ \E i \in 1..Len(req.body.products) :
                 req.body.products[i].productId = resp'.message.id
            /\ orders' = orders]_vars

\* the three answers in turn: order found, user found, second product missing
C20_Witness ==
  /\ Handled("PUT /orders/:id") /\ resp.status = 404
  /\ req.id \in StoredIds(orders)
  /\ req.body.userId \in StoredIds(users)
  /\ Len(req.body.products) = 2
  /\ req.body.products[1].productId \in StoredIds(products)
  /\ resp.message = [text |-> "Product with ID not found",
                     id |-> req.body.products[2].productId]
  /\ orders[FindIndex(orders, req.id)].userId # req.body.userId

\* C21: a PATCH /orders/:id whose body is {status: s}, s one of the five
\* statuses, on a stored order answers 200 and leaves the order with status s,
\* whatever its status was; no transition is rejected
C21_AnyTransition ==
  [][Handles("PATCH /orders/:id") /\ DOMAIN req.body = {"status"}
       /\ orderOperations_getById(orders, req.id) # Undefined
     => /\ resp'.status = 200
        /\ resp'.data.status = req.body.status
        /\ orders'[FindIndex(orders, req.id)].status = req.body.status
        /\ orderOperations_getById(orders', req.id).status = req.body.status]_vars

\* a delivered order went back to pending
C21_Witness ==
  /\ Handled("PATCH /orders/:id")
  /\ req.id = "o1"
  /\ req.body = [status |-> "pending"]
  /\ resp.status = 200
  /\ orders[1].status = "pending"
  /\ orders[1].totalAmount = 99999

C23_IdsDistinct ==
  /\ \A c \in 1..3 : \A i, j \in 1..Len(Collections[c]) :
       i # j => Collections[c][i].id # Collections[c][j].id
  /\ \A k \in {"users", "products", "orders"} :
       (Handled("POST /" \o k) /\ resp.status = 201) =>
         resp.data.id = generateId(nextId - 1)

\* C24: POST /orders with a stored userId and a non-empty list whose products
\* are all stored, none of them with inStock = false, is answered 201 and
\* appends exactly one order; a product stored without inStock counts as
\* orderable
C24_OrderableUnlessFalse ==
  [][(/\ Handles("POST /orders")
      /\ req.body.userId \in StoredIds(users)
      /\ Len(req.body.products) >= 1
      /\ \A i \in 1..Len(req.body.products) :
           /\ req.body.products[i].productId \in StoredIds(products)
           /\ LET product == Referenced(products, req.body.products[i])
              IN  ~(Has(product, "inStock") /\ product.inStock = FALSE)) =>
       /\ resp'.status = 201
       /\ Len(orders') = Len(orders) + 1
       /\ \A i \in 1..Len(orders) : orders'[i] = orders[i]]_vars

\* the products a GET /products with query q is to return: category equal,
\* price within the inclusive bounds, inStock equal to the requested boolean
Wanted(q) ==
  SelectSeq(products,
    LAMBDA x :
      /\ Has(q, "category") => x.category = q.category
      /\ Has(q, "minPrice") => x.price >= q.minPrice
      /\ Has(q, "maxPrice") => x.price <= q.maxPrice
      /\ Has(q, "inStock") =>
           Has(x, "inStock") /\ x.inStock = (q.inStock \in {"true", "1"}))

\* C25: GET /products answers with exactly the stored products that satisfy
\* every supplied filter, in stored order, for each accepted inStock value
\* (true, false, 1, 0) and bounds that may be 0
C25_FiltersExact ==
  Handled("GET /products") =>
    /\ resp.status = 200
    /\ resp.data = Wanted(req.sent.query)
    /\ resp.pagination.total = Len(Wanted(req.sent.query))

\* the effect of update(id, data) on collection arr, giving arr2 and returning
\* ret at time t, for the fields of data in Supplied: on a known id the
\* record at the same position has the supplied value in every field of
\* Supplied, its previous value in every field the partial lacks, and
\* updatedAt = t, the other records are as before and ret is that record;
\* on an unknown id ret is null and nothing changes
UpdateEffect(arr, arr2, id, data, t, ret, Supplied) ==
  LET index == FindIndex(arr, id)
  IN  IF index = 0
      THEN ret = Null /\ arr2 = arr
      ELSE /\ Len(arr2) = Len(arr)
           /\ \A i \in 1..Len(arr) : i # index => arr2[i] = arr[i]
           /\ DOMAIN arr2[index] = DOMAIN arr[index] \cup DOMAIN data
           /\ \A k \in Supplied : arr2[index][k] = data[k]
           /\ \A k \in DOMAIN arr[index] \ (DOMAIN data \cup {"updatedAt"}) :
                arr2[index][k] = arr[index][k]
           /\ arr2[index].updatedAt = t
           /\ ret = arr2[index]

\* C26 as stated: every field of the partial, updatedAt included, has the
\* supplied value after the update
C26_EveryFieldSupplied ==
  [][\A c \in 1..3 :
       (pc = "idle" /\ req'.op = "update" /\ req'.collection = c) =>
         UpdateEffect(Collections[c], Collections'[c], req'.id, req'.data, now,
                      resp'.returned, DOMAIN req'.data)]_vars

\* C26: a store update on a known id leaves, at the same position, a record
\* with the supplied value in every field of the partial other than updatedAt,
\* the previous value in every field the partial lacks, and updatedAt set to
\* the time of the update, which also replaces an updatedAt the partial
\* carries; the other records are unchanged and the record is returned.  On
\* an unknown id update returns null and changes nothing.
C26_ShallowMerge ==
  [][\A c \in 1..3 :
       (pc = "idle" /\ req'.op = "update" /\ req'.collection = c) =>
         UpdateEffect(Collections[c], Collections'[c], req'.id, req'.data, now,
                      resp'.returned, DOMAIN req'.data \ {"updatedAt"})]_vars

\* update("u2", {createdAt, age}) has been applied to the second user
C26_Witness ==
  /\ req.op = "update" /\ req.collection = 1 /\ req.id = "u2"
  /\ req.data = [createdAt |-> 9, age |-> 31]
  /\ resp.returned = users[2]
  /\ users[2].age = 31 /\ users[2].createdAt = 9
  /\ users[2].email = "jane.smith@example.com"
  /\ users[1] = SeedUsers[1]

\* C27: a PUT /orders/:id whose order, user and products are stored is
\* answered 200 whatever the products' stock, and the stored order then has
\* the totalAmount and the lines, prices included, of the body; a PATCH
\* answered 200 whose body has no totalAmount leaves the stored totalAmount
\* as it was
C27_NoRecompute ==
  [][/\ (/\ Handles("PUT /orders/:id")
         /\ req.id \in StoredIds(orders)
         /\ req.body.userId \in StoredIds(users)
         /\ \A i \in 1..Len(req.body.products) :
              req.body.products[i].productId \in StoredIds(products)) =>
          /\ resp'.status = 200
          /\ orders'[FindIndex(orders, req.id)].totalAmount = req.sent.body.totalAmount
          /\ orders'[FindIndex(orders, req.id)].products = req.sent.body.products
     /\ (/\ Handles("PATCH /orders/:id")
         /\ resp'.status = 200
         /\ ~Has(req.sent.body, "totalAmount")) =>
          orders'[FindIndex(orders, req.id)].totalAmount
            = orders[FindIndex(orders, req.id)].totalAmount]_vars

\* a PUT naming an out-of-stock product stored a total that is not the sum
\* of its lines, at a price that is not the product's
C27_Witness ==
  /\ Handled("PUT /orders/:id")
  /\ resp.status = 200
  /\ \E i \in 1..Len(products) :
       /\ products[i].id = req.body.products[1].productId
       /\ products[i].inStock = FALSE
       /\ products[i].price # req.body.products[1].price
  /\ resp.data.totalAmount = req.body.totalAmount
  /\ resp.data.totalAmount # SumOfLines(resp.data.products)
  /\ orders[1] = resp.data

\* C28: every stored order has one of the five statuses and a non-empty
\* sequence of lines, each with a productId, a quantity >= 1 and a price >= 0
C28_StoredOrdersValid ==
  \A i \in 1..Len(orders) :
    /\ orders[i].status \in Statuses
    /\ orders[i].products # <<>>
    /\ \A j \in 1..Len(orders[i].products) :
         LET line == orders[i].products[j]
         IN  /\ {"productId", "quantity", "price"} \subseteq DOMAIN line
             /\ line.quantity >= 1
             /\ line.price >= 0

\* C29: after a PUT or PATCH answered 200 the record that was found under
\* the request's id is found under that id again, at the same position and
\* with the createdAt it had
C29_IdAndCreatedAtKept ==
  [][(/\ pc = "validated"
      /\ \E k \in {"users", "products", "orders"} :
           req.op \in {"PUT /" \o k \o "/:id", "PATCH /" \o k \o "/:id"}
      /\ resp'.status = 200) =>
       LET index == FindIndex(CollectionOf(req.op), req.id)
       IN  /\ FindIndex(CollectionOf(req.op)', req.id) = index
           /\ CollectionOf(req.op)'[index].id = req.id
           /\ CollectionOf(req.op)'[index].createdAt
                = CollectionOf(req.op)[index].createdAt]_vars

\* both clients have their answer to a POST /users with the same email
BothAnswered ==
  /\ \A ip \in IPs : clients[ip].at = "answered" /\ clients[ip].req.op = "POST /users"
  /\ \A ip, jp \in IPs : clients[ip].req.body.email = clients[jp].req.body.email

\* C30: a handler's reads of the store and its write are one step, whatever
\* the other client's request does before or after it.  Of two POST /users
\* in flight together with the same new email one is answered 201 and the
\* other 409, and one user with that email is stored; a POST /orders that
\* stores an order finds its user and its products in the store in the step
\* that appends the order.
C30_HandlersAtomic ==
  [][/\ BothAnswered' =>
          /\ {clients'[ip].status : ip \in IPs} = {201, 409}
          /\ \E ip, jp \in IPs : clients'[ip].status = 201 /\ clients'[jp].status = 409
          /\ Cardinality({i \in 1..Len(users') :
                            users'[i].email = clients'["ip1"].req.body.email}) = 1
     /\ (Handles("POST /orders") /\ pc' = "done" /\ Len(orders') = Len(orders) + 1) =>
          /\ resp'.status = 201
          /\ req.body.userId \in StoredIds(users) /\ users' = users
          /\ \A i \in 1..Len(req.body.products) :
               req.body.products[i].productId \in StoredIds(products)
          /\ products' = products
     /\ (Handles("POST /orders") /\ pc' = "done"
         /\ (req.body.userId \notin StoredIds(users)
             \/ \E i \in 1..Len(req.body.products) :
                  req.body.products[i].productId \notin StoredIds(products))) =>
          resp'.status = 404 /\ orders' = orders]_vars

\* two POST /users with the same email in flight together: the one that
\* arrived first waits at its handler while the other is answered 201
C30_Witness ==
  /\ pc = "done"
  /\ req.op = "POST /users" /\ Ip(req) = "ip2"
  /\ resp.status = 201
  /\ clients["ip1"].at = "waiting"
  /\ clients["ip1"].req.op = "POST /users"
  /\ clients["ip1"].req.body.email = req.body.email
  /\ clients["ip1"].req.sent.body.email # req.sent.body.email

====
